---- MODULE Spec2Model ----
(***************************************************************************)
(* TSL2591 light-sensor driver (src/tsl2591.py) and the device behind its  *)
(* I2C handle.  One step of the model is one call into the driver, one bus *)
(* transaction made by it (writeto / readfrom), its return to the caller,  *)
(* or one new sample latched by the sensor.                                *)
(*                                                                         *)
(* Bytes objects are sequences of naturals 0..255.  Hexadecimal constants  *)
(* of the source are written in decimal with the source value in a comment.*)
(***************************************************************************)
EXTENDS Integers, Sequences, FiniteSets, TLC

\* ------------------------------------------------------------ constants
\* class Gain
LOW == 0
MEDIUM == 16
HIGH == 32
MAX == 48
\* class Time
MS100 == 0
MS200 == 1
MS300 == 2
MS400 == 3
MS500 == 4
MS600 == 5
\* class TSL2591
COMMAND == 160
DEVICE_ID == 80
LUX_COEFB_x100 == 164
LUX_COEFC_x100 == 59
LUX_COEFD_x100 == 86
LUX_DF == 408
MAX_COUNT_100MS == 36863
MAX_COUNT == 65535
REGISTER_ENABLE == 0
REGISTER_CONFIG == 1
REGISTER_ID == 18
REGISTER_C0DATAL == 20
REGISTER_C0DATAH == 21
REGISTER_C1DATAL == 22
REGISTER_C1DATAH == 23
\* local constants of the two setters
CONFIG_CLEAR_AGAIN_MASK == 7
CONFIG_CLEAR_TIME_MASK == 48

\* ------------------------------------------------------------ bounds
\* How many of the samples of SampleTable the sensor can latch.
NumSamples == 4

\* ------------------------------------------------------------ integers and bytes
\* Python's & on non-negative integers.
RECURSIVE BitAnd(_, _)
BitAnd(a, b) ==
    IF a = 0 \/ b = 0 THEN 0
    ELSE (a % 2) * (b % 2) + 2 * BitAnd(a \div 2, b \div 2)

\* Python's | on non-negative integers.
RECURSIVE BitOr(_, _)
BitOr(a, b) ==
    IF a = 0 THEN b
    ELSE IF b = 0 THEN a
    ELSE (IF a % 2 = 1 \/ b % 2 = 1 THEN 1 ELSE 0) + 2 * BitOr(a \div 2, b \div 2)

\* Python's << on non-negative integers.
Shl(a, n) == a * (2 ^ n)

\* int.from_bytes(b): big-endian, the first byte is the most significant.
RECURSIVE from_bytes(_)
from_bytes(b) ==
    IF b = << >> THEN 0
    ELSE from_bytes(SubSeq(b, 1, Len(b) - 1)) * 256 + b[Len(b)]

\* (n).to_bytes(): one byte; the driver only converts values 0..255.
to_bytes(n) == << n >>

Max2(a, b) == IF a >= b THEN a ELSE b

\* ------------------------------------------------------------ inputs
GainValues == {LOW, MEDIUM, HIGH, MAX}
TimeValues == {MS100, MS200, MS300, MS400, MS500, MS600}
\* Values callers pass to the gain setter: the four constants and one other.
GainInputs == GainValues \cup {64}
\* Values callers pass to the time setter: the six constants and one other.
TimeInputs == TimeValues \cup {6}
\* The same with more values outside the constants (6 fits the three time
\* bits of CONFIG, 16 is a gain bit).
GainInputsWide == GainValues \cup {8, 64}
TimeInputsWide == TimeValues \cup {6, 16}
\* enable(aen, aien, npien, pon) as called by the caller: the defaults, and
\* with the ALS interrupt.
EnableInputs == { <<1, 0, 0, 1>>, <<1, 1, 0, 1>> }
\* Content of the ID register of the device at the address: a TSL2591, or not.
IdBytes == {DEVICE_ID, 0, 81}
\* Content of CONFIG when the driver is constructed: after power-on (0x00), or
\* left at HIGH / 300 ms (0x22) by an earlier run.
InitConfigs == {0, 34}
\* Every combination of the four flags of enable().
EnableFlags == { <<aen, aien, npien, pon>> :
                   aen \in {0, 1}, aien \in {0, 1}, npien \in {0, 1}, pon \in {0, 1} }
\* Samples (C0, C1) the sensor can latch.
SampleTable ==
    << <<100, 50>>, <<10, 0>>, <<36863, 50>>, <<4660, 65535>>,
       <<65535, 36863>>, <<65534, 255>> >>
Samples == { SampleTable[i] : i \in 1..NumSamples }

VARIABLES
    reg,        \* device: content of the ENABLE, CONFIG and ID registers
    sample,     \* device: the latched sample <<C0, C1>>
    ptr,        \* device: register selected by the last command byte
    obj,        \* "none": no driver object; "live": a constructed TSL2591
    _gain,      \* self._gain
    _time,      \* self._time
    pc,         \* "idle", "run" (inside a call) or "done" (the call's outcome)
    op,         \* the method called
    arg,        \* its arguments
    step,       \* number of bus transactions the call has made
    buf,        \* bytes read during the call
    loc,        \* local variables of lux and visible
    result,     \* value returned (<< >> when none)
    err,        \* exception raised ("none" when none)
    trace,      \* transport calls of the current call, in order
    prev,       \* history: the last completed setter call, if it was the last call
    validOnly,  \* history: every completed setter call had an enumerated value
    config0,    \* history: CONFIG when the model starts
    other,      \* the call state (pc .. trace) of a second caller of the same object
    serial      \* history: no caller has yet run inside another caller's call

dev == <<reg, sample, ptr>>
drv == <<obj, _gain, _time>>
ctl == <<pc, op, arg, step>>
out == <<result, err>>
hist == <<prev, validOnly, config0>>
host == <<other, serial>>
vars == <<reg, sample, ptr, obj, _gain, _time, pc, op, arg, step, buf, loc,
          result, err, trace, prev, validOnly, config0, other, serial>>

NoLoc == [C1 |-> 0, atime |-> 0, counts |-> 0, again |-> 0]
NoPrev == << "other" >>
\* The call state of a caller that is not inside a call.
IdleContext ==
    [pc |-> "idle", op |-> "", arg |-> << >>, step |-> 0, buf |-> << >>,
     loc |-> NoLoc, result |-> << >>, err |-> "none", trace |-> << >>]

\* ------------------------------------------------------------ the device
\* The byte a one-byte read of register p returns.
DevRead(p) ==
    CASE p = REGISTER_C0DATAL -> sample[1] % 256
      [] p = REGISTER_C0DATAH -> sample[1] \div 256
      [] p = REGISTER_C1DATAL -> sample[2] % 256
      [] p = REGISTER_C1DATAH -> sample[2] \div 256
      [] OTHER -> reg[p]

\* The registers after byte b is written to register p (ID and the channel
\* registers are read-only).
DevWrite(p, b) ==
    IF p \in {REGISTER_ENABLE, REGISTER_CONFIG} THEN [reg EXCEPT ![p] = b] ELSE reg

\* The sensor latches a new sample: both bytes of both channels at once.
SensorUpdate ==
    /\ \E s \in Samples \ {sample} : sample' = s
    /\ UNCHANGED <<reg, ptr, drv, ctl, buf, loc, out, trace, hist, host>>

\* The sensor latches a new sample while no call is in progress.
SensorUpdateIdle ==
    /\ pc = "idle"
    /\ SensorUpdate

\* ------------------------------------------------------------ protocol layer
\* Mutant of _target: the register address is sent without the command bits.
_target_no_command(register) ==
    LET buffer == to_bytes(register) IN
    /\ ptr' = BitAnd(buffer[1], 31)
    /\ trace' = Append(trace, <<"w", buffer[1]>>)
    /\ UNCHANGED <<reg, sample>>

\* Mutant of _target: the command byte is built and never sent.
_target_not_sent(register) ==
    UNCHANGED <<reg, sample, ptr, trace>>

\* _target(register): one writeto of the command byte; the device selects the
\* register addressed by the low five bits.
_target(register) ==
    LET buffer == to_bytes(BitOr(COMMAND, register)) IN
    /\ ptr' = BitAnd(buffer[1], 31)
    /\ trace' = Append(trace, <<"w", buffer[1]>>)
    /\ UNCHANGED <<reg, sample>>

\* The bytes _read() returns: the content of the selected register.
ReadBytes == << DevRead(ptr) >>

\* _read(): one readfrom of one byte.
_read ==
    /\ trace' = Append(trace, <<"r", 1>>)
    /\ UNCHANGED <<reg, sample, ptr>>

\* _write(buffer): one writeto of the buffer to the selected register.
_write(buffer) ==
    /\ reg' = DevWrite(ptr, buffer[1])
    /\ trace' = Append(trace, <<"w", buffer[1]>>)
    /\ UNCHANGED <<sample, ptr>>

\* ------------------------------------------------------------ call and return
Idle(o) == pc = "idle" /\ obj = o
At(o, k) == pc = "run" /\ op = o /\ step = k

Call(o, a) ==
    /\ pc' = "run" /\ op' = o /\ arg' = a /\ step' = 0
    /\ UNCHANGED <<buf, loc, out, trace>>

Advance == step' = step + 1 /\ UNCHANGED <<pc, op, arg>>

Finish(res, e) ==
    /\ pc' = "done" /\ result' = res /\ err' = e
    /\ step' = step + 1
    /\ UNCHANGED <<op, arg>>

\* What the history keeps of a completed call.
LastCall ==
    IF op \in {"gain_setter", "time_setter"} /\ err = "none"
    THEN <<op, arg[1]>> ELSE NoPrev

\* The call returns (or raises) to the caller, which takes the outcome.
Return ==
    /\ pc = "done"
    /\ pc' = "idle" /\ op' = "" /\ arg' = << >> /\ step' = 0
    /\ buf' = << >> /\ loc' = NoLoc /\ result' = << >> /\ err' = "none"
    /\ trace' = << >>
    /\ prev' = LastCall
    /\ UNCHANGED <<dev, drv, validOnly, config0, host>>

\* The driver takes no lock: a second caller of the same object runs from
\* here on, until control comes back, and the first one stays where it is,
\* between two transport calls or between two calls.
Switch ==
    /\ obj = "live"
    /\ pc' = other.pc /\ op' = other.op /\ arg' = other.arg /\ step' = other.step
    /\ buf' = other.buf /\ loc' = other.loc
    /\ result' = other.result /\ err' = other.err
    /\ trace' = other.trace
    /\ other' = [pc |-> pc, op |-> op, arg |-> arg, step |-> step, buf |-> buf,
                 loc |-> loc, result |-> result, err |-> err, trace |-> trace]
    /\ serial' = (serial /\ pc # "run")
    /\ UNCHANGED <<dev, drv, hist>>

\* The transport call the running call makes next (writeto or readfrom) raises
\* OSError: the device is not changed, and as no method of the driver catches
\* an exception, the call ends there and the error reaches the caller.
transport_error ==
    /\ pc = "run"
    /\ trace' = Append(trace, <<"x", 0>>)
    /\ Finish(<< >>, "OSError")
    /\ UNCHANGED <<dev, drv, buf, loc, hist, host>>

\* ------------------------------------------------------------ enable
\* Mutant of EnableByte: the positions of AEN and PON exchanged.
EnableByte_pon_aen_swapped(aen, aien, npien, pon) ==
    BitOr(BitOr(BitOr(Shl(npien, 7), Shl(aien, 4)), Shl(pon, 1)), aen)

\* The ENABLE byte enable() builds from its four flags (0 or 1).
EnableByte(aen, aien, npien, pon) ==
    BitOr(BitOr(BitOr(Shl(npien, 7), Shl(aien, 4)), Shl(aen, 1)), pon)

\* Mutant of enable_body: the byte goes to the CONFIG register.
enable_body_on_config(o, k, flags) ==
    \/ /\ At(o, k)
       /\ _target(REGISTER_CONFIG)
       /\ Advance
       /\ UNCHANGED <<drv, buf, loc, out, hist, host>>
    \/ /\ At(o, k + 1)
       /\ _write(to_bytes(EnableByte(flags[1], flags[2], flags[3], flags[4])))
       /\ obj' = "live"
       /\ Finish(<< >>, "none")
       /\ UNCHANGED <<_gain, _time, buf, loc, hist, host>>

\* The two bus transactions of enable(), made as transactions k and k+1 of the
\* call o.
enable_body(o, k, flags) ==
    \/ /\ At(o, k)
       /\ _target(REGISTER_ENABLE)
       /\ Advance
       /\ UNCHANGED <<drv, buf, loc, out, hist, host>>
    \/ /\ At(o, k + 1)
       /\ _write(to_bytes(EnableByte(flags[1], flags[2], flags[3], flags[4])))
       /\ obj' = "live"
       /\ Finish(<< >>, "none")
       /\ UNCHANGED <<_gain, _time, buf, loc, hist, host>>

\* ------------------------------------------------------------ __init__
\* Mutant of id_mismatch: the identity is not checked.
id_mismatch_unchecked(value) == FALSE

\* The identity check of __init__.
id_mismatch(value) == value # DEVICE_ID

__init__ ==
    \/ /\ Idle("none")
       /\ _gain' = LOW /\ _time' = MS100
       /\ Call("__init__", << >>)
       /\ UNCHANGED <<dev, obj, hist, host>>
    \/ /\ At("__init__", 0)
       /\ _target(REGISTER_ID)
       /\ Advance
       /\ UNCHANGED <<drv, buf, loc, out, hist, host>>
    \/ /\ At("__init__", 1)
       /\ _read
       /\ buf' = ReadBytes
       /\ IF id_mismatch(from_bytes(ReadBytes))
          THEN Finish(<< >>, "RuntimeError: Failed to find TSL2591!")
          ELSE Advance /\ UNCHANGED out
       /\ UNCHANGED <<drv, loc, hist, host>>
    \/ enable_body("__init__", 2, <<1, 0, 0, 1>>)

\* enable(aen, aien, npien, pon)
enable(flags) ==
    \/ /\ Idle("live")
       /\ Call("enable", flags)
       /\ UNCHANGED <<dev, drv, hist, host>>
    \/ /\ arg = flags
       /\ enable_body("enable", 0, flags)

\* disable(): enable(aen=False, pon=False)
disable ==
    \/ /\ Idle("live")
       /\ Call("disable", << >>)
       /\ UNCHANGED <<dev, drv, hist, host>>
    \/ enable_body("disable", 0, <<0, 0, 0, 0>>)

\* A call that makes no bus transaction: it is over when it starts.
CallFinish(o, a, res, e) ==
    /\ pc' = "done" /\ op' = o /\ arg' = a /\ step' = 0
    /\ result' = res /\ err' = e
    /\ UNCHANGED <<buf, loc, trace>>

\* ------------------------------------------------------------ gain
\* Mutant of gain_getter: it returns the other field.
gain_getter_other_field ==
    /\ Idle("live")
    /\ CallFinish("gain_getter", << >>, << _time >>, "none")
    /\ UNCHANGED <<dev, drv, hist, host>>

\* gain (property)
gain_getter ==
    /\ Idle("live")
    /\ CallFinish("gain_getter", << >>, << _gain >>, "none")
    /\ UNCHANGED <<dev, drv, hist, host>>

\* Mutant of gain_assert: the value is not checked.
gain_assert_off(value) == TRUE

\* The assert of the gain setter.
gain_assert(value) == value \in {LOW, MEDIUM, HIGH, MAX}

\* Mutant of gain_config: the mask keeps the gain bits instead of the time bits.
gain_config_keeps_gain(buffer, value) ==
    LET reading == from_bytes(buffer) IN
    BitOr(BitAnd(reading, CONFIG_CLEAR_TIME_MASK), value)

\* The byte the gain setter writes back, from the bytes it read.
gain_config(buffer, value) ==
    LET reading == from_bytes(buffer) IN
    BitOr(BitAnd(reading, CONFIG_CLEAR_AGAIN_MASK), value)

\* Mutant of gain_setter: self._gain is assigned before the write to CONFIG.
gain_setter_update_first(value) ==
    \/ /\ Idle("live")
       /\ IF gain_assert(value)
          THEN Call("gain_setter", << value >>)
          ELSE CallFinish("gain_setter", << value >>, << >>, "AssertionError")
       /\ UNCHANGED <<dev, drv, hist, host>>
    \/ /\ At("gain_setter", 0) /\ arg = << value >>
       /\ _target(REGISTER_CONFIG)
       /\ Advance
       /\ UNCHANGED <<drv, buf, loc, out, hist, host>>
    \/ /\ At("gain_setter", 1) /\ arg = << value >>
       /\ _read
       /\ buf' = ReadBytes
       /\ _gain' = value
       /\ Advance
       /\ UNCHANGED <<obj, _time, loc, out, hist, host>>
    \/ /\ At("gain_setter", 2) /\ arg = << value >>
       /\ _write(to_bytes(gain_config(buf, value)))
       /\ validOnly' = (validOnly /\ value \in GainValues)
       /\ Finish(<< >>, "none")
       /\ UNCHANGED <<obj, _gain, _time, buf, loc, prev, config0, host>>

\* gain (setter)
gain_setter(value) ==
    \/ /\ Idle("live")
       /\ IF gain_assert(value)
          THEN Call("gain_setter", << value >>)
          ELSE CallFinish("gain_setter", << value >>, << >>, "AssertionError")
       /\ UNCHANGED <<dev, drv, hist, host>>
    \/ /\ At("gain_setter", 0) /\ arg = << value >>
       /\ _target(REGISTER_CONFIG)
       /\ Advance
       /\ UNCHANGED <<drv, buf, loc, out, hist, host>>
    \/ /\ At("gain_setter", 1) /\ arg = << value >>
       /\ _read
       /\ buf' = ReadBytes
       /\ Advance
       /\ UNCHANGED <<drv, loc, out, hist, host>>
    \/ /\ At("gain_setter", 2) /\ arg = << value >>
       /\ _write(to_bytes(gain_config(buf, value)))
       /\ _gain' = value
       /\ validOnly' = (validOnly /\ value \in GainValues)
       /\ Finish(<< >>, "none")
       /\ UNCHANGED <<obj, _time, buf, loc, prev, config0, host>>

\* ------------------------------------------------------------ time
\* time (property)
time_getter ==
    /\ Idle("live")
    /\ CallFinish("time_getter", << >>, << _time >>, "none")
    /\ UNCHANGED <<dev, drv, hist, host>>

\* Mutant of time_config: the mask of the gain setter is applied.
time_config_gain_mask(buffer, value) ==
    LET reading == from_bytes(buffer) IN
    BitOr(BitAnd(reading, CONFIG_CLEAR_AGAIN_MASK), value)

\* The byte the time setter writes back, from the bytes it read.
time_config(buffer, value) ==
    LET reading == from_bytes(buffer) IN
    BitOr(BitAnd(reading, CONFIG_CLEAR_TIME_MASK), value)

\* time (setter): the value is not checked.
time_setter(value) ==
    \/ /\ Idle("live")
       /\ Call("time_setter", << value >>)
       /\ UNCHANGED <<dev, drv, hist, host>>
    \/ /\ At("time_setter", 0) /\ arg = << value >>
       /\ _target(REGISTER_CONFIG)
       /\ Advance
       /\ UNCHANGED <<drv, buf, loc, out, hist, host>>
    \/ /\ At("time_setter", 1) /\ arg = << value >>
       /\ _read
       /\ buf' = ReadBytes
       /\ Advance
       /\ UNCHANGED <<drv, loc, out, hist, host>>
    \/ /\ At("time_setter", 2) /\ arg = << value >>
       /\ _write(to_bytes(time_config(buf, value)))
       /\ _time' = value
       /\ validOnly' = (validOnly /\ value \in TimeValues)
       /\ Finish(<< >>, "none")
       /\ UNCHANGED <<obj, _gain, buf, loc, prev, config0, host>>

\* ------------------------------------------------------------ readings
RawRegisters ==
    << REGISTER_C0DATAL, REGISTER_C0DATAH, REGISTER_C1DATAL, REGISTER_C1DATAH >>

\* Mutant of raw_value: the low byte taken as the most significant one.
raw_value_low_first(b) ==
    LET C0 == << b[1] >> \o << b[2] >>
        C1 == << b[3] >> \o << b[4] >>
    IN  << from_bytes(C0), from_bytes(C1) >>

\* The pair raw_luminosity returns from the four bytes read, in the order read
\* (C0L, C0H, C1L, C1H): C0 = C0H + C0L, C1 = C1H + C1L, then int.from_bytes.
raw_value(b) ==
    LET C0 == << b[2] >> \o << b[1] >>
        C1 == << b[4] >> \o << b[3] >>
    IN  << from_bytes(C0), from_bytes(C1) >>

\* The first seven bus transactions of raw_luminosity, made as transactions
\* base .. base+6 of the call o: select, read, select, read, ...
raw_luminosity_body(o, base) ==
    \/ /\ pc = "run" /\ op = o /\ (step - base) \in {0, 2, 4, 6}
       /\ _target(RawRegisters[((step - base) \div 2) + 1])
       /\ Advance
       /\ UNCHANGED <<drv, buf, loc, out, hist, host>>
    \/ /\ pc = "run" /\ op = o /\ (step - base) \in {1, 3, 5}
       /\ _read
       /\ buf' = buf \o ReadBytes
       /\ Advance
       /\ UNCHANGED <<drv, loc, out, hist, host>>

\* Its eighth transaction, the read of C1DATAH, after which the caller has the
\* four bytes buf \o ReadBytes.
raw_luminosity_last(o, base) ==
    /\ At(o, base + 7)
    /\ _read
    /\ UNCHANGED <<drv, hist, host>>

\* raw_luminosity (property)
raw_luminosity ==
    \/ /\ Idle("live")
       /\ Call("raw_luminosity", << >>)
       /\ UNCHANGED <<dev, drv, hist, host>>
    \/ raw_luminosity_body("raw_luminosity", 0)
    \/ /\ raw_luminosity_last("raw_luminosity", 0)
       /\ buf' = buf \o ReadBytes
       /\ Finish(raw_value(buf \o ReadBytes), "none")
       /\ UNCHANGED loc

\* Python integers are unbounded and full_spectrum needs 32 bits: such a value
\* v is held as << v \div 65536, v % 65536 >>, high part first (the high part
\* is negative for a negative v).
Wide(v) == << v \div 65536, v % 65536 >>

\* w - n for a value w held in two parts.
WideSub(w, n) ==
    LET d == w[2] - n IN << w[1] + (d \div 65536), d % 65536 >>

\* Mutant of full_spectrum_value: the sum of the two counts.
full_spectrum_value_sum(C0, C1) == Wide(C0 + C1)

\* What full_spectrum returns for the raw reading (C0, C1): C1 << 16 | C0, held
\* in two parts.
full_spectrum_value(C0, C1) ==
    << BitOr(C1, C0 \div 65536), C0 % 65536 >>

\* full_spectrum (property)
full_spectrum ==
    \/ /\ Idle("live")
       /\ Call("full_spectrum", << >>)
       /\ UNCHANGED <<dev, drv, hist, host>>
    \/ raw_luminosity_body("full_spectrum", 0)
    \/ /\ raw_luminosity_last("full_spectrum", 0)
       /\ buf' = buf \o ReadBytes
       /\ LET raw == raw_value(buf \o ReadBytes) IN
          Finish(full_spectrum_value(raw[1], raw[2]), "none")
       /\ UNCHANGED loc

\* infrared (property)
infrared ==
    \/ /\ Idle("live")
       /\ Call("infrared", << >>)
       /\ UNCHANGED <<dev, drv, hist, host>>
    \/ raw_luminosity_body("infrared", 0)
    \/ /\ raw_luminosity_last("infrared", 0)
       /\ buf' = buf \o ReadBytes
       /\ Finish(<< raw_value(buf \o ReadBytes)[2] >>, "none")
       /\ UNCHANGED loc

\* visible (property): one raw_luminosity for C1, then full_spectrum, which
\* reads raw_luminosity again.
visible ==
    \/ /\ Idle("live")
       /\ Call("visible", << >>)
       /\ UNCHANGED <<dev, drv, hist, host>>
    \/ raw_luminosity_body("visible", 0)
    \/ /\ raw_luminosity_last("visible", 0)
       /\ loc' = [loc EXCEPT !.C1 = raw_value(buf \o ReadBytes)[2]]
       /\ buf' = << >>
       /\ Advance
       /\ UNCHANGED out
    \/ raw_luminosity_body("visible", 8)
    \/ /\ raw_luminosity_last("visible", 8)
       /\ buf' = buf \o ReadBytes
       /\ LET raw == raw_value(buf \o ReadBytes) IN
          Finish(WideSub(full_spectrum_value(raw[1], raw[2]), loc.C1), "none")
       /\ UNCHANGED loc

\* ------------------------------------------------------------ lux
\* timings[t] * 1000 of lux, in milliseconds, for the keys of timings.
timings ==
    (MS100 :> 100) @@ (MS200 :> 200) @@ (MS300 :> 300) @@
    (MS400 :> 400) @@ (MS500 :> 500) @@ (MS600 :> 600)

\* Mutant of lux_counts: the 100 ms ceiling for every integration time.
lux_counts_100ms_only(t) == MAX_COUNT_100MS

\* counts of lux.
lux_counts(t) == IF t = MS100 THEN MAX_COUNT_100MS ELSE MAX_COUNT

\* again of lux: the if / elif chain over self._gain.
lux_again(g) ==
    IF g = MEDIUM THEN 25
    ELSE IF g = HIGH THEN 428
    ELSE IF g = HIGH THEN 9876
    ELSE 1

\* Mutant of lux_value: the smaller of LUX0 and LUX1.
lux_value_min(C0, C1, atime, again) ==
    LET CPL == atime * again
        LUX0 == 100 * C0 - LUX_COEFB_x100 * C1
        LUX1 == LUX_COEFC_x100 * C0 - LUX_COEFD_x100 * C1
    IN  << IF LUX0 <= LUX1 THEN LUX0 ELSE LUX1, CPL >>

\* The value lux returns, max(LUX0, LUX1), as the pair << n, d >> that stands
\* for (n / 100) / (d / LUX_DF):
\*   CPL  = (atime * again) / LUX_DF             d = atime * again
\*   LUX0 = (C0 - LUX_COEFB * C1) / CPL          n = 100 * (C0 - 1.64 * C1)
\*   LUX1 = (LUX_COEFC * C0 - LUX_COEFD * C1) / CPL
\* CPL is positive, so the larger quotient is the one of the larger numerator.
lux_value(C0, C1, atime, again) ==
    LET CPL == atime * again
        LUX0 == 100 * C0 - LUX_COEFB_x100 * C1
        LUX1 == LUX_COEFC_x100 * C0 - LUX_COEFD_x100 * C1
    IN  << Max2(LUX0, LUX1), CPL >>

\* The outcome of lux for the raw reading (C0, C1): the exception raised, the
\* value returned and the locals computed on the way.
lux_outcome(C0, C1, t, g) ==
    IF t \notin DOMAIN timings
    THEN [err |-> "KeyError", result |-> << >>, loc |-> NoLoc]
    ELSE LET atime == timings[t]
             counts == lux_counts(t)
             again == lux_again(g)
         IN  IF C0 >= counts \/ C1 >= counts
             THEN [err |-> "RuntimeError: Overflow reading channels!",
                   result |-> << >>,
                   loc |-> [NoLoc EXCEPT !.atime = atime, !.counts = counts]]
             ELSE [err |-> "none",
                   result |-> lux_value(C0, C1, atime, again),
                   loc |-> [NoLoc EXCEPT !.atime = atime, !.counts = counts,
                                         !.again = again]]

\* lux (property)
lux ==
    \/ /\ Idle("live")
       /\ Call("lux", << >>)
       /\ UNCHANGED <<dev, drv, hist, host>>
    \/ raw_luminosity_body("lux", 0)
    \/ /\ raw_luminosity_last("lux", 0)
       /\ buf' = buf \o ReadBytes
       /\ LET raw == raw_value(buf \o ReadBytes)
              o == lux_outcome(raw[1], raw[2], _time, _gain)
          IN  /\ loc' = o.loc
              /\ Finish(o.result, o.err)

Init ==
    /\ reg \in { [r \in {REGISTER_ENABLE, REGISTER_CONFIG, REGISTER_ID} |->
                    CASE r = REGISTER_ENABLE -> 0
                      [] r = REGISTER_CONFIG -> c
                      [] OTHER -> i] : c \in InitConfigs, i \in IdBytes }
    /\ sample \in Samples
    /\ ptr = REGISTER_ENABLE
    /\ obj = "none" /\ _gain = LOW /\ _time = MS100
    /\ pc = "idle" /\ op = "" /\ arg = << >> /\ step = 0
    /\ buf = << >> /\ loc = NoLoc /\ result = << >> /\ err = "none"
    /\ trace = << >>
    /\ prev = NoPrev /\ validOnly = TRUE
    /\ config0 = reg[REGISTER_CONFIG]
    /\ other = IdleContext /\ serial = TRUE

Next ==
    \/ __init__
    \/ \E f \in EnableInputs : enable(f)
    \/ disable
    \/ gain_getter
    \/ \E v \in GainInputs : gain_setter(v)
    \/ time_getter
    \/ \E v \in TimeInputs : time_setter(v)
    \/ raw_luminosity
    \/ full_spectrum
    \/ infrared
    \/ visible
    \/ lux
    \/ Return
    \/ SensorUpdateIdle

\* The driver with one caller; the sensor latches between calls.
Spec == Init /\ [][Next]_vars

\* Construction and configuration only, with more values outside the constants.
NextConfig ==
    \/ __init__
    \/ gain_getter
    \/ \E v \in GainInputsWide : gain_setter(v)
    \/ time_getter
    \/ \E v \in TimeInputsWide : time_setter(v)
    \/ Return

SpecConfig == Init /\ [][NextConfig]_vars

\* Construction and the readings, with the sensor latching at any moment, also
\* between the bus transactions of one call.
NextSensor ==
    \/ __init__
    \/ raw_luminosity
    \/ full_spectrum
    \/ infrared
    \/ visible
    \/ lux
    \/ Return
    \/ SensorUpdate

SpecSensor == Init /\ [][NextSensor]_vars

\* Construction and configuration over a transport whose calls can fail.
NextFail ==
    \/ __init__
    \/ gain_getter
    \/ \E v \in GainInputs : gain_setter(v)
    \/ time_getter
    \/ \E v \in TimeInputs : time_setter(v)
    \/ Return
    \/ transport_error

SpecFail == Init /\ [][NextFail]_vars

\* Two callers of one driver object, a reading and a setter, with no lock.
NextRace ==
    \/ __init__
    \/ raw_luminosity
    \/ gain_setter(HIGH)
    \/ Return
    \/ Switch

SpecRace == Init /\ [][NextRace]_vars

\* Power control with every combination of flags, next to the setters and
\* the readings of one sample.
NextPower ==
    \/ __init__
    \/ \E f \in EnableFlags : enable(f)
    \/ disable
    \/ gain_setter(HIGH)
    \/ time_setter(MS300)
    \/ raw_luminosity
    \/ full_spectrum
    \/ infrared
    \/ visible
    \/ lux
    \/ Return

SpecPower == Init /\ [][NextPower]_vars

\* ------------------------------------------------------------ properties
Done(o) == pc = "done" /\ op = o
IsPrefix(s, t) == Len(s) <= Len(t) /\ s = SubSeq(t, 1, Len(s))
CONFIG == reg[REGISTER_CONFIG]
ENABLE == reg[REGISTER_ENABLE]

\* C1: on a device whose CONFIG held 0x00 at construction, between calls and
\* as long as every setter call had an enumerated value, the driver's gain is
\* the gain field (mask 0x30) of CONFIG, its integration time is the time field
\* (mask 0x07), and CONFIG == gain | integration_time.
C1_LockStep ==
    (obj = "live" /\ pc # "run" /\ config0 = 0 /\ validOnly) =>
        /\ BitAnd(CONFIG, 48) = _gain
        /\ BitAnd(CONFIG, 7) = _time
        /\ CONFIG = BitOr(_gain, _time)

C1_Witness ==
    /\ obj = "live" /\ pc = "idle" /\ config0 = 0 /\ validOnly
    /\ prev = << "gain_setter", MAX >>
    /\ _time = MS600
    /\ CONFIG = 53

\* C2: a gain getter called right after setGain(g), g one of the four
\* constants, returns g; a time getter called right after
\* setIntegrationTime(t), t one of the six constants, returns t; whatever was
\* set before.
C2_RoundTrip ==
    /\ \A g \in {0, 16, 32, 48} :
         (Done("gain_getter") /\ prev = << "gain_setter", g >>) => result = << g >>
    /\ \A t \in 0..5 :
         (Done("time_getter") /\ prev = << "time_setter", t >>) => result = << t >>

C2_Witness ==
    /\ Done("gain_getter")
    /\ prev = << "gain_setter", MEDIUM >>
    /\ result = << MEDIUM >>
    /\ ~validOnly
    /\ config0 = 34

\* C3: a gain setter called with a value outside {0x00, 0x10, 0x20, 0x30} ends
\* at once with the assertion error, has made no transport call, and has left
\* the driver's gain and integration time and the device registers unchanged.
C3_InvalidGainRejected ==
    [][ (pc = "idle" /\ pc' # "idle" /\ op' = "gain_setter"
            /\ arg'[1] \notin {0, 16, 32, 48})
        => /\ pc' = "done"
           /\ err' = "AssertionError"
           /\ trace' = << >>
           /\ UNCHANGED <<_gain, _time, reg, ptr>> ]_vars

C3_Witness ==
    /\ Done("gain_setter")
    /\ arg = << 64 >>
    /\ err = "AssertionError"
    /\ trace = << >>
    /\ _gain = HIGH
    /\ CONFIG = BitOr(HIGH, _time)

\* C4: a time setter called with a value outside 0x00..0x05 makes no transport
\* call, changes neither the driver's fields nor the device registers, and
\* ends with an error.
C4_InvalidTimeRejected ==
    [][ (pc' # "idle" /\ op' = "time_setter" /\ arg'[1] \notin 0..5)
        => /\ trace' = << >>
           /\ UNCHANGED <<_gain, _time, reg>>
           /\ pc' = "done" => err' # "none" ]_vars

\* C5: construction selects the ID register (command byte 0xB2) and reads one
\* byte; with any byte other than 0x50 it raises "Failed to find TSL2591!"
\* having made no further transport call, with ENABLE untouched and no driver
\* object; with 0x50 it goes on to enable(): select ENABLE (0xA0), write 0x03.
C5_InitTrace ==
    << <<"w", 178>>, <<"r", 1>>, <<"w", 160>>, <<"w", 3>> >>

C5_IdentityCheck ==
    (op = "__init__" /\ pc # "idle") =>
        /\ IsPrefix(trace, C5_InitTrace)
        /\ reg[REGISTER_ID] # 80 =>
             /\ Len(trace) <= 2
             /\ ENABLE = 0
             /\ obj = "none"
             /\ pc = "done" => (err = "RuntimeError: Failed to find TSL2591!"
                                /\ Len(trace) = 2)
        /\ (reg[REGISTER_ID] = 80 /\ pc = "done") =>
             /\ err = "none"
             /\ trace = C5_InitTrace
             /\ ENABLE = 3
             /\ obj = "live"

C5_Witness ==
    /\ Done("__init__")
    /\ reg[REGISTER_ID] = 81
    /\ err = "RuntimeError: Failed to find TSL2591!"
    /\ trace = << <<"w", 178>>, <<"r", 1>> >>
    /\ ENABLE = 0

\* The raw reading (C0, C1) of the four bytes read, low byte first.
ReadC0 == buf[2] * 256 + buf[1]
ReadC1 == buf[4] * 256 + buf[3]

\* C6: with the driver's integration time one of the six tiers, lux() raises
\* the overflow error and returns nothing when C0 or C1 of the raw reading is
\* at least the threshold (36863 at 100 ms, 65535 at the other tiers), and
\* returns a number without error when both are below it.
C6_Saturation ==
    (Done("lux") /\ _time \in 0..5) =>
        LET threshold == IF _time = 0 THEN 36863 ELSE 65535 IN
        IF ReadC0 >= threshold \/ ReadC1 >= threshold
        THEN err = "RuntimeError: Overflow reading channels!" /\ result = << >>
        ELSE err = "none" /\ Len(result) = 2 /\ result[2] > 0

C6_Witness ==
    /\ Done("lux")
    /\ _time = MS200
    /\ ReadC0 = 36863 /\ ReadC1 = 50
    /\ err = "none"
    /\ Len(result) = 2

\* C7: the multiplier lux() uses right after setGain(g) is 1 for LOW, 25 for
\* MEDIUM, 428 for HIGH and 9876 for MAX.
C7_Multiplier(g) ==
    CASE g = 0 -> 1 [] g = 16 -> 25 [] g = 32 -> 428 [] g = 48 -> 9876

C7_GainMultiplier ==
    (Done("lux") /\ err = "none" /\ prev[1] = "gain_setter") =>
        loc.again = C7_Multiplier(prev[2])

\* C8: for an unsaturated raw reading (C0, C1), lux() returns max(LUX0, LUX1)
\* with CPL = (atime_ms * again) / 408, LUX0 = (C0 - 1.64 * C1) / CPL,
\* LUX1 = (0.59 * C0 - 0.86 * C1) / CPL, atime_ms = 100 * (tier + 1) and again
\* the multiplier lux() selected; C0 = 100, C1 = 50, LOW, 100 ms gives 73.4
\* within 0.5.  The value << n, d >> is (n / 100) / (d / 408).
C8_LuxFormula ==
    (Done("lux") /\ err = "none") =>
        LET n == result[1]
            d == result[2]
            atime_ms == 100 * (_time + 1)
            L0 == 100 * ReadC0 - 164 * ReadC1
            L1 == 59 * ReadC0 - 86 * ReadC1
            diff == 408 * n - 7340 * d
        IN  /\ d = atime_ms * loc.again
            /\ n >= L0 /\ n >= L1 /\ n \in {L0, L1}
            /\ (ReadC0 = 100 /\ ReadC1 = 50 /\ _gain = 0 /\ _time = 0) =>
                 (diff <= 50 * d /\ -diff <= 50 * d)

C8_Witness ==
    /\ Done("lux")
    /\ err = "none"
    /\ ReadC0 = 100 /\ ReadC1 = 50
    /\ _gain = LOW /\ _time = MS100
    /\ result = << 1800, 100 >>

\* C9: full_spectrum returns (C1 << 16) | C0 of the raw reading of its own
\* four reads, which is the latched sample: low 16 bits C0, high 16 bits C1,
\* both 16-bit; it equals the sum C0 + C1 only when C1 is 0.
C9_FullSpectrumPacked ==
    Done("full_spectrum") =>
        /\ err = "none"
        /\ ReadC0 \in 0..65535 /\ ReadC1 \in 0..65535
        /\ << ReadC0, ReadC1 >> = sample
        /\ result[2] = ReadC0
        /\ result[1] = ReadC1
        /\ (result = Wide(ReadC0 + ReadC1)) <=> (ReadC1 = 0)

C9_Witness ==
    /\ Done("full_spectrum")
    /\ sample = << 4660, 65535 >>
    /\ result = << 65535, 4660 >>

\* C10: the value visible() returns is ((C1 << 16) | C0) - C1 for one sample
\* (C0, C1) of the sensor, and is not negative, also when the sensor latches
\* new samples during the call.
C10_VisibleOf(s) ==
    LET d == s[1] - s[2] IN << s[2] + (d \div 65536), d % 65536 >>

C10_VisibleOneSample ==
    Done("visible") =>
        /\ \E s \in Samples : result = C10_VisibleOf(s)
        /\ result[1] >= 0

\* C11: in the transport calls of any call into the driver, every statement
\* made one transport call; every read reads one byte and comes right after
\* the write of the one command byte 0xA0 | register of the register it is
\* meant for (ID in __init__, CONFIG in the setters, C0DATAL, C0DATAH,
\* C1DATAL, C1DATAH in turn in the readings), which the device then has
\* selected; every data byte written follows the select of its register
\* (ENABLE, or CONFIG after the read of CONFIG); a call starts with a select.
C11_ReadRegister(o, k) ==
    CASE o = "__init__" -> 18
      [] o \in {"gain_setter", "time_setter"} -> 1
      [] OTHER -> 20 + ((k - 1) % 4)

C11_WriteRegister(o) == IF o \in {"gain_setter", "time_setter"} THEN 1 ELSE 0

C11_Reads(i) == Cardinality({ j \in 1..i : trace[j][1] = "r" })

C11_ProtocolOrder ==
    /\ Len(trace) = (IF pc = "idle" THEN 0 ELSE step)
    /\ trace # << >> => (trace[1][1] = "w" /\ trace[1][2] >= 160)
    /\ \A i \in 1..Len(trace) :
         /\ trace[i][1] = "r" =>
              /\ i > 1
              /\ trace[i][2] = 1
              /\ trace[i - 1] = <<"w", 160 + C11_ReadRegister(op, C11_Reads(i))>>
              /\ i = Len(trace) => ptr = C11_ReadRegister(op, C11_Reads(i))
         /\ (trace[i][1] = "w" /\ trace[i][2] < 160) =>
              /\ i > 1
              /\ LET sel == IF trace[i - 1][1] = "r" THEN i - 2 ELSE i - 1 IN
                 /\ sel >= 1
                 /\ trace[sel] = <<"w", 160 + C11_WriteRegister(op)>>

C11_Witness ==
    /\ Done("gain_setter")
    /\ trace = << <<"w", 161>>, <<"r", 1>>, <<"w", 50>> >>
    /\ CONFIG = 50

\* C12: raw_luminosity, full_spectrum, infrared and lux each make exactly the
\* four select + one-byte-read round trips C0DATAL (0x14), C0DATAH (0x15),
\* C1DATAL (0x16), C1DATAH (0x17), in this order, on every call; the bytes are
\* those of the sample the sensor holds now, and raw_luminosity returns
\* C0 = (C0H << 8) | C0L and C1 = (C1H << 8) | C1L, both in 0..65535.
C12_RawTrace ==
    << <<"w", 180>>, <<"r", 1>>, <<"w", 181>>, <<"r", 1>>,
       <<"w", 182>>, <<"r", 1>>, <<"w", 183>>, <<"r", 1>> >>

C12_RawRoundTrips ==
    /\ (pc = "done" /\ op \in {"raw_luminosity", "full_spectrum", "infrared", "lux"}) =>
         /\ trace = C12_RawTrace
         /\ buf = << sample[1] % 256, sample[1] \div 256,
                     sample[2] % 256, sample[2] \div 256 >>
    /\ Done("raw_luminosity") =>
         /\ err = "none"
         /\ result = << buf[2] * 256 + buf[1], buf[4] * 256 + buf[3] >>
         /\ result = sample
         /\ result[1] \in 0..65535 /\ result[2] \in 0..65535
    /\ Done("infrared") => result = << sample[2] >>

C12_Witness ==
    /\ Done("raw_luminosity")
    /\ trace = C12_RawTrace
    /\ buf = << 255, 143, 50, 0 >>
    /\ result = << 36863, 50 >>

\* C13: enable(aen, aien, npien, pon) selects ENABLE (0x00) and writes the one
\* byte npien << 7 | aien << 4 | aen << 1 | pon, for each of the 16
\* combinations of flags; a construction that succeeds has written 0x03 (power
\* and sensing on), a failed one has written nothing; disable() writes 0x00;
\* the ENABLE register changes in no step other than the data write of
\* __init__, enable or disable.
C13_Packed(f) == f[3] * 128 + f[2] * 16 + f[1] * 2 + f[4]

C13_EnableTrace(b) == << <<"w", 160>>, <<"w", b>> >>

C13_Step ==
    /\ (pc = "run" /\ pc' = "done" /\ op = "enable") =>
         /\ trace' = C13_EnableTrace(C13_Packed(arg))
         /\ ptr' = REGISTER_ENABLE
         /\ ENABLE' = C13_Packed(arg)
    /\ (pc = "run" /\ pc' = "done" /\ op = "disable") =>
         /\ trace' = C13_EnableTrace(0)
         /\ ENABLE' = 0
    /\ (pc = "run" /\ pc' = "done" /\ op = "__init__") =>
         IF err' = "none"
         THEN /\ SubSeq(trace', 3, 4) = C13_EnableTrace(3)
              /\ ENABLE' = 3
              /\ obj' = "live"
         ELSE ENABLE' = ENABLE /\ obj' = "none"
    /\ ENABLE' # ENABLE =>
         /\ op \in {"__init__", "enable", "disable"}
         /\ pc = "run" /\ pc' = "done"

C13_PowerStateMachine == [][C13_Step]_vars

C13_Witness ==
    /\ Done("enable")
    /\ arg = <<0, 1, 1, 1>>
    /\ trace = C13_EnableTrace(145)
    /\ ENABLE = 145
    /\ CONFIG = 34

\* C14: when a transport call of a setter (the select write, the read of
\* CONFIG or the write of CONFIG) raises, the call ends with that error right
\* there, no further transport call is made, and _gain, _time and the device
\* registers are as before the call; _gain (_time) changes only in the step
\* whose write of CONFIG succeeded, to the value written; hence the fields and
\* CONFIG stay in lock-step through failed setter calls.
C14_Setters == {"gain_setter", "time_setter"}

C14_Step ==
    /\ (op' \in C14_Setters /\ ~(pc' = "done" /\ err' = "none")) =>
         /\ UNCHANGED <<_gain, _time>>
         /\ reg' = reg
    /\ (pc = "run" /\ op \in C14_Setters /\ err' = "OSError") =>
         /\ pc' = "done"
         /\ trace' = Append(trace, <<"x", 0>>)
         /\ \A i \in 1..Len(trace) : trace[i][1] # "x"
    /\ (obj = "live" /\ (_gain' # _gain \/ _time' # _time)) =>
         /\ op \in C14_Setters
         /\ pc' = "done" /\ err' = "none"
         /\ trace' = Append(trace, <<"w", CONFIG'>>)
         /\ IF op = "gain_setter"
            THEN _gain' = arg[1] /\ _time' = _time
            ELSE _time' = arg[1] /\ _gain' = _gain
    /\ (obj' = "live" /\ config0 = 0 /\ validOnly') =>
         CONFIG' = BitOr(_gain', _time')

C14_FailedSetter == [][C14_Step]_vars

C14_Witness ==
    /\ Done("gain_setter") /\ arg = << MAX >>
    /\ err = "OSError"
    /\ trace = << <<"w", 161>>, <<"r", 1>>, <<"x", 0>> >>
    /\ prev = << "time_setter", MS300 >>
    /\ _gain = LOW /\ _time = MS300 /\ CONFIG = 2

\* C15: a gain setter called with one of the four constants g writes
\* (old CONFIG & 0x07) | g, so bits 0-2 of CONFIG and _time are as before; a
\* time setter called with one of the six constants t writes
\* (old CONFIG & 0x30) | t, so bits 4-5 of CONFIG and _gain are as before;
\* a gain setter followed by a time setter, and a time setter followed by a
\* gain setter, both end with CONFIG = g | t, whatever CONFIG held before.
C15_Step ==
    /\ (op = "gain_setter" /\ pc = "run" /\ pc' = "done" /\ arg[1] \in {0, 16, 32, 48}) =>
         /\ CONFIG' = (CONFIG % 8) + arg[1]
         /\ CONFIG' % 8 = CONFIG % 8
         /\ _time' = _time
         /\ \A t \in 0..5 :
              prev = << "time_setter", t >> => CONFIG' = arg[1] + t
    /\ (op = "time_setter" /\ pc = "run" /\ pc' = "done" /\ arg[1] \in 0..5) =>
         /\ CONFIG' = ((CONFIG \div 16) % 4) * 16 + arg[1]
         /\ (CONFIG' \div 16) % 4 = (CONFIG \div 16) % 4
         /\ _gain' = _gain
         /\ \A g \in {0, 16, 32, 48} :
              prev = << "gain_setter", g >> => CONFIG' = g + arg[1]

C15_OwnFieldOnly == [][C15_Step]_vars

C15_Witness ==
    /\ Done("gain_setter") /\ arg = << MEDIUM >>
    /\ prev = << "time_setter", MS400 >>
    /\ config0 = 34
    /\ CONFIG = 19
    /\ _gain = MEDIUM /\ _time = MS400

\* C16: as long as no caller has run inside another caller's call (calls
\* serialized by a lock of the host), every read directly follows the select
\* written by the same call and returns the content of the register that
\* select names; without the lock there is an interleaving in which a read
\* returns the content of a register the other caller selected (the witness:
\* raw_luminosity takes the CONFIG byte for C0DATAL).
C16_ReadStep ==
    /\ pc = "run" /\ op' = op
    /\ trace' = Append(trace, <<"r", 1>>)

C16_Step ==
    (serial' /\ C16_ReadStep) =>
        /\ trace # << >>
        /\ trace[Len(trace)] = <<"w", 160 + ptr>>
        /\ buf'[Len(buf')] = DevRead(trace[Len(trace)][2] - 160)

C16_SerializedReads == [][C16_Step]_vars

C16_Witness ==
    /\ ~serial
    /\ pc = "run" /\ op = "raw_luminosity"
    /\ trace = << <<"w", 180>>, <<"r", 1>> >>
    /\ other.op = "gain_setter" /\ other.trace = << <<"w", 161>> >>
    /\ CONFIG = 34
    /\ buf = << CONFIG >>
    /\ sample[1] % 256 # CONFIG

\* C17: right after a construction that succeeded, and before any setter call,
\* _gain (LOW) and _time (100 ms) equal the gain field (bits 4-5) and the time
\* field (bits 0-2) of the device's CONFIG register, whatever CONFIG held
\* before the construction.
C17_ConstructedInLockStep ==
    (Done("__init__") /\ err = "none") =>
        /\ _gain = LOW /\ _time = MS100
        /\ (CONFIG \div 16) % 4 = _gain \div 16
        /\ CONFIG % 8 = _time

\* C18: with the sensor latching new samples between the bus transactions of
\* a call, the pair raw_luminosity returns is one of the samples the sensor
\* held: no count mixes the bytes of two samples, and C0 and C1 are of the
\* same sample.
C18_NoTornSample ==
    Done("raw_luminosity") =>
        /\ \E s \in Samples : result[1] = s[1]
        /\ \E s \in Samples : result[2] = s[2]
        /\ result \in Samples

\* C19: no step of raw_luminosity, full_spectrum, infrared, visible, lux (also
\* when lux raises on saturation), the getters, enable or disable changes
\* _gain, _time or the device's CONFIG register, and every byte these calls
\* write is the command byte selecting ENABLE or a channel register, except
\* the one ENABLE byte that enable and disable write after their select.
C19_Ops ==
    {"raw_luminosity", "full_spectrum", "infrared", "visible", "lux",
     "gain_getter", "time_getter", "enable", "disable"}

C19_Selects == { 160 + r : r \in {0, 20, 21, 22, 23} }

C19_Step ==
    op' \in C19_Ops =>
        /\ _gain' = _gain /\ _time' = _time
        /\ CONFIG' = CONFIG
        /\ \A i \in 1..Len(trace') :
             trace'[i][1] = "w" =>
                \/ trace'[i][2] \in C19_Selects
                \/ /\ op' \in {"enable", "disable"}
                   /\ i = 2 /\ trace'[1] = <<"w", 160>>
                   /\ (pc' = "done" => ENABLE' = trace'[i][2])

C19_ConfigurationUntouched == [][C19_Step]_vars

C19_Witness ==
    /\ Done("lux")
    /\ err = "RuntimeError: Overflow reading channels!"
    /\ trace = C12_RawTrace
    /\ prev = << "time_setter", MS300 >>
    /\ _gain = HIGH /\ _time = MS300 /\ CONFIG = 34
====
